---- MODULE Spec2Model ----
(***************************************************************************)
(* Model of scripts/utils.js: the release helpers that propagate one       *)
(* version through package manifests and Deno import maps and then commit  *)
(* and tag.                                                                *)
(*                                                                         *)
(* Strings are sequences of tokens.  A token is one of the delimiter       *)
(* characters the code inspects ("@", "/", "^") or a maximal chunk of      *)
(* other characters ("remix-run", "1.0.0", "remix-" ...), so startsWith,   *)
(* split, join and template concatenation are computed on the sequence.    *)
(* A JSON object is the sequence of its <<key, value>> members, in key     *)
(* order, as JSON.parse / JSON.stringify keep it.                          *)
(***************************************************************************)
EXTENDS Naturals, Sequences, FiniteSets, TLC

VARIABLES
    version,   \* remixVersion, the argument of every operation
    fs,        \* the files on disk: path -> [kind, json]
    log,       \* lines written with console.log
    pc,        \* position of incrementRemixVersion ("idle" outside a release)
    idx,       \* loop index of `for (let name of remixPackages.all)`
    tasks,     \* state of each updateDenoImportMap promise of Promise.all
    taskDoc,   \* the document each pending jsonfile.writeFile will write
    events,    \* completed file writes and git commands, in order
    err,       \* the step whose exception incrementRemixVersion surfaced
    call,      \* the last direct call of an exported operation and its outcome
    runs       \* how many times each file was the target of a direct call

vars == <<version, fs, log, pc, idx, tasks, taskDoc, events, err, call, runs>>

----------------------------------------------------------------------------
(* Bounds of the model *)

MaxRuns == 2
MaxEntries == 2
MaxBadFiles == 1

----------------------------------------------------------------------------
(* Strings *)

EmptyStr == <<>>

\* String.prototype.startsWith with a one-token prefix
startsWith(s, t) == Len(s) > 0 /\ s[1] = t

\* JavaScript truthiness of a string value: "" is falsy
truthy(s) == s # EmptyStr

RECURSIVE split(_)
\* String.prototype.split("/"): the segments between the slashes
split(s) ==
    IF \A i \in 1..Len(s) : s[i] # "/"
    THEN <<s>>
    ELSE LET i == CHOOSE i \in 1..Len(s) :
                     s[i] = "/" /\ \A j \in 1..(i - 1) : s[j] # "/"
         IN  <<SubSeq(s, 1, i - 1)>> \o split(SubSeq(s, i + 1, Len(s)))

RECURSIVE join(_)
\* Array.prototype.join("/")
join(parts) ==
    IF Len(parts) = 0 THEN EmptyStr
    ELSE IF Len(parts) = 1 THEN parts[1]
    ELSE parts[1] \o <<"/">> \o join(Tail(parts))

----------------------------------------------------------------------------
(* JSON objects: ordered <<key, value>> members with distinct keys *)

Keys(obj) == {obj[i][1] : i \in 1..Len(obj)}
Has(obj, k) == k \in Keys(obj)
Get(obj, k) == obj[CHOOSE i \in 1..Len(obj) : obj[i][1] = k][2]

\* obj[k] = v: an existing member keeps its place, a new one goes last
Set(obj, k, v) ==
    IF Has(obj, k)
    THEN [i \in 1..Len(obj) |-> IF obj[i][1] = k THEN <<k, v>> ELSE obj[i]]
    ELSE Append(obj, <<k, v>>)

\* let { k, ...rest } = obj: the other members, in order
Rest(obj, k) == SelectSeq(obj, LAMBDA m : m[1] # k)

----------------------------------------------------------------------------
(* Files *)

JsonFile(j) == [kind |-> "json", json |-> j]
MissingFile == [kind |-> "missing", json |-> <<>>]   \* readFile rejects: ENOENT
CorruptFile == [kind |-> "corrupt", json |-> <<>>]   \* readFile rejects: SyntaxError
NullFile == [kind |-> "null", json |-> <<>>]         \* the file parses to null

----------------------------------------------------------------------------
(* remixPackages *)

adapters == << <<"architect">>, <<"cloudflare-pages">>,
               <<"cloudflare-workers">>, <<"express">> >>
runtimes == << <<"cloudflare">>, <<"deno">>, <<"node">> >>
core == << <<"dev">>, <<"server-runtime">>, <<"react">>, <<"eslint-config">>,
           <<"css-bundle">>, <<"testing">> >>
all == adapters \o runtimes \o core \o << <<"serve">> >>

\* `@remix-run/${pkg}`
Scoped(pkg) == <<"@", "remix-run", "/">> \o pkg

----------------------------------------------------------------------------
(* Paths *)

\* packageJson(packageName, directory)
packageJson(packageName, directory) ==
    <<directory, "/">> \o packageName \o <<"/", "package.json">>

\* the two import maps of incrementRemixVersion
importMapPaths ==
    { <<".vscode", "/", "deno_resolve_npm_imports.json">>,
      <<"templates", "/", "classic-remix-compiler", "/", "deno", "/",
        ".vscode", "/", "resolve_npm_imports.json">> }

\* `remix-${name}`
SourceName(name) == <<"remix-">> \o name

\* the package directories incrementRemixVersion updates, in order
releasePackages ==
    << <<"remix">>, <<"create-remix">> >>
        \o [i \in 1..Len(all) |-> SourceName(all[i])]

manifestPaths ==
    {packageJson(releasePackages[i], "packages") : i \in 1..Len(releasePackages)}

deploymentPath == packageJson(<<"deployment-test">>, "scripts")

Paths == manifestPaths \cup importMapPaths \cup {deploymentPath}

----------------------------------------------------------------------------
(* updateRemixVersion *)

\* the `dependencies` / `devDependencies` statement of the loop body:
\* if (config[field]?.[key]) config[field][key] = remixVersion
rewriteExact(config, field, key, remixVersion) ==
    IF Has(config, field) /\ Has(Get(config, field), key)
           /\ truthy(Get(Get(config, field), key))
    THEN Set(config, field, Set(Get(config, field), key, remixVersion))
    ELSE config

\* rewritePeer with the branches of the ternary exchanged
rewritePeerInverted(config, key, remixVersion) ==
    IF Has(config, "peerDependencies")
           /\ Has(Get(config, "peerDependencies"), key)
           /\ truthy(Get(Get(config, "peerDependencies"), key))
    THEN LET peers == Get(config, "peerDependencies")
             isRelaxedPeerDep == startsWith(Get(peers, key), "^")
         IN  Set(config, "peerDependencies",
                 Set(peers, key,
                     (IF isRelaxedPeerDep THEN EmptyStr ELSE <<"^">>)
                         \o remixVersion))
    ELSE config

\* the `peerDependencies` statement of the loop body
rewritePeer(config, key, remixVersion) ==
    IF Has(config, "peerDependencies")
           /\ Has(Get(config, "peerDependencies"), key)
           /\ truthy(Get(Get(config, "peerDependencies"), key))
    THEN LET peers == Get(config, "peerDependencies")
             isRelaxedPeerDep == startsWith(Get(peers, key), "^")
         IN  Set(config, "peerDependencies",
                 Set(peers, key,
                     (IF isRelaxedPeerDep THEN <<"^">> ELSE EmptyStr)
                         \o remixVersion))
    ELSE config

\* one iteration of `for (let pkg of remixPackages.all)`
loopBody(config, pkg, remixVersion) ==
    rewritePeer(
        rewriteExact(
            rewriteExact(config, "dependencies", Scoped(pkg), remixVersion),
            "devDependencies", Scoped(pkg), remixVersion),
        Scoped(pkg), remixVersion)

RECURSIVE loop(_, _, _)
\* iterations i .. Len(all) of the loop (the test on Len evaluates each
\* iteration's result before the next iteration starts)
loop(config, i, remixVersion) ==
    IF i > Len(all) THEN config
    ELSE LET mutated == loopBody(config, all[i], remixVersion)
         IN  IF Len(mutated) >= 0
             THEN loop(mutated, i + 1, remixVersion)
             ELSE mutated

\* the callback updateRemixVersion hands to updatePackageConfig
transform(config, remixVersion) ==
    loop(Set(config, "version", remixVersion), 1, remixVersion)

LogLine(msg, name, ver) == [msg |-> msg, name |-> name, version |-> ver]

\* updatePackageConfig writing the callback's result even after a failed read
updatePackageConfigCreates(file, packageName, transformed) ==
    IF file.kind = "null"
    THEN [file |-> file,
          lines |-> <<LogLine("NoPackageJson", packageName, EmptyStr)>>,
          wrote |-> FALSE, raised |-> FALSE]
    ELSE [file |-> JsonFile(transformed), lines |-> <<>>, wrote |-> TRUE,
          raised |-> FALSE]

\* updatePackageConfig without its try / catch
updatePackageConfigNoCatch(file, packageName, transformed) ==
    IF file.kind \in {"missing", "corrupt"}
    THEN [file |-> file, lines |-> <<>>, wrote |-> FALSE, raised |-> TRUE]
    ELSE IF file.kind = "null"
    THEN [file |-> file,
          lines |-> <<LogLine("NoPackageJson", packageName, EmptyStr)>>,
          wrote |-> FALSE, raised |-> FALSE]
    ELSE [file |-> JsonFile(transformed), lines |-> <<>>, wrote |-> TRUE,
          raised |-> FALSE]

\* updatePackageConfig on the manifest `file`; `transformed` is the document as
\* the callback leaves it.  Yields the file afterwards, the lines logged,
\* whether jsonfile.writeFile ran and whether the promise rejected: a failed
\* readFile lands in the catch block, which returns.
updatePackageConfig(file, packageName, transformed) ==
    IF file.kind \in {"missing", "corrupt"}
    THEN [file |-> file, lines |-> <<>>, wrote |-> FALSE, raised |-> FALSE]
    ELSE IF file.kind = "null"
    THEN [file |-> file,
          lines |-> <<LogLine("NoPackageJson", packageName, EmptyStr)>>,
          wrote |-> FALSE, raised |-> FALSE]
    ELSE [file |-> JsonFile(transformed), lines |-> <<>>, wrote |-> TRUE,
          raised |-> FALSE]

\* the name in the success line
logName(packageName) ==
    IF startsWith(packageName, "remix-")
    THEN Scoped(Tail(packageName))
    ELSE packageName

\* the console.log that follows `await updatePackageConfig(...)`; it is not
\* reached when the await throws
successLine(raised, packageName, remixVersion) ==
    IF raised THEN <<>>
    ELSE <<LogLine("Updated", logName(packageName), remixVersion)>>

\* updateRemixVersion(packageName, remixVersion) on the manifest `file`
\* (no caller passes successMessage)
updateRemixVersion(file, packageName, remixVersion) ==
    LET r == updatePackageConfig(file, packageName,
                                 transform(file.json, remixVersion))
    IN  [file |-> r.file,
         lines |-> r.lines \o successLine(r.raised, packageName, remixVersion),
         wrote |-> r.wrote,
         raised |-> r.raised]

----------------------------------------------------------------------------
(* updateDeploymentScriptVersion *)

\* Yields the file afterwards, the lines logged, whether the write ran and
\* whether the promise rejected (readFile failed, or json.dependencies is
\* undefined).
updateDeploymentScriptVersion(file, remixVersion) ==
    IF file.kind # "json" \/ ~Has(file.json, "dependencies")
    THEN [file |-> file, lines |-> <<>>, wrote |-> FALSE, raised |-> TRUE]
    ELSE [file |-> JsonFile(Set(file.json, "dependencies",
                                Set(Get(file.json, "dependencies"),
                                    Scoped(<<"dev">>), remixVersion))),
          lines |-> <<LogLine("UpdatedDeployment",
                              <<"scripts", "/", "deployment-test">>,
                              remixVersion)>>,
          wrote |-> TRUE, raised |-> FALSE]

----------------------------------------------------------------------------
(* updateDenoImportMap *)

CDN == <<"https:", "/", "/", "esm.sh">>
SelfReference == Scoped(<<"deno">>)

\* [packageName, importPath] of an import specifier
getPackageNameFromImportSpecifier(importSpecifier) ==
    LET parts == split(importSpecifier)
    IN  IF startsWith(importSpecifier, "@")
        THEN LET scope == parts[1]
                 pkg == IF Len(parts) >= 2 THEN parts[2] ELSE <<"undefined">>
             IN  <<scope \o <<"/">> \o pkg, join(SubSeq(parts, 3, Len(parts)))>>
        ELSE <<parts[1], join(Tail(parts))>>

remixPackagesFull == {Scoped(all[i]) : i \in 1..Len(all)}

\* versionedUrl appending the slash whether or not there is an import path
versionedUrlAlwaysSlash(packageName, importPath, remixVersion) ==
    CDN \o <<"/">> \o packageName \o <<"@">> \o remixVersion
        \o <<"/">> \o importPath

\* `https://esm.sh/${packageName}@${remixVersion}${importPath ? `/${importPath}` : ""}`
versionedUrl(packageName, importPath, remixVersion) ==
    CDN \o <<"/">> \o packageName \o <<"@">> \o remixVersion
        \o (IF truthy(importPath) THEN <<"/">> \o importPath ELSE EmptyStr)

\* rewriteEntry without the test `importName !== "@remix-run/deno"`
rewriteEntryNoExclusion(entry, remixVersion) ==
    LET importName == entry[1]
        d == getPackageNameFromImportSpecifier(importName)
    IN  IF d[1] \in remixPackagesFull
        THEN <<importName, versionedUrl(d[1], d[2], remixVersion)>>
        ELSE entry

\* the callback mapped over Object.entries(imports)
rewriteEntry(entry, remixVersion) ==
    LET importName == entry[1]
        d == getPackageNameFromImportSpecifier(importName)
        packageName == d[1]
        importPath == d[2]
    IN  IF packageName \in remixPackagesFull /\ importName # SelfReference
        THEN <<importName, versionedUrl(packageName, importPath, remixVersion)>>
        ELSE entry

\* newDocument assigning `imports` on the document as read
newDocumentInPlace(doc, remixVersion) ==
    LET imports == Get(doc, "imports")
        newImports == [i \in 1..Len(imports) |->
                           rewriteEntry(imports[i], remixVersion)]
    IN  Set(doc, "imports", newImports)

\* the document handed to jsonfile.writeFile: { ...json, imports: newImports }
newDocument(doc, remixVersion) ==
    LET imports == Get(doc, "imports")
        json == Rest(doc, "imports")
        newImports == [i \in 1..Len(imports) |->
                           rewriteEntry(imports[i], remixVersion)]
    IN  Set(json, "imports", newImports)

\* whether updateDenoImportMap rejects before writing: readFile fails, the
\* document is null, or it has no `imports` (Object.entries throws)
importMapRejects(file) ==
    file.kind # "json" \/ ~Has(file.json, "imports")

\* updateDenoImportMap(importMapPath, remixVersion) on `file`, run to completion
updateDenoImportMap(file, remixVersion) ==
    IF importMapRejects(file)
    THEN [file |-> file, wrote |-> FALSE, raised |-> TRUE]
    ELSE [file |-> JsonFile(newDocument(file.json, remixVersion)),
          wrote |-> TRUE, raised |-> FALSE]

----------------------------------------------------------------------------
(* Inputs *)

Versions == { <<"2.0.0">>, <<"^", "2.0.0">> }

DepValues == { EmptyStr, <<"1.0.0">>, <<"^", "1.0.0">> }

InternalDep == Scoped(<<"dev">>)
ExternalDep == <<"react">>

Absent == <<"absent">>

\* dependency mappings over an internal and an external distribution name
DepMaps ==
    { (IF a = Absent THEN <<>> ELSE << <<InternalDep, a>> >>)
          \o (IF b = Absent THEN <<>> ELSE << <<ExternalDep, b>> >>) :
      a \in DepValues \cup {Absent}, b \in {<<"^", "1.0.0">>, Absent} }

OptionalMember(present, key, value) ==
    IF present THEN << <<key, value>> >> ELSE <<>>

ManifestDocs ==
    { OptionalMember(c.v, "version", <<"1.0.0">>)
          \o OptionalMember(c.d, "dependencies", c.dm)
          \o OptionalMember(c.dd, "devDependencies", c.ddm)
          \o OptionalMember(c.p, "peerDependencies", c.pm) :
      c \in [v : BOOLEAN, d : BOOLEAN, dm : DepMaps, dd : BOOLEAN,
             ddm : DepMaps, p : BOOLEAN, pm : DepMaps] }

ManifestFiles ==
    {JsonFile(j) : j \in ManifestDocs} \cup {MissingFile, CorruptFile, NullFile}

Url(name, ver, path) == CDN \o <<"/">> \o name \o <<"@">> \o ver \o path

\* import-map entries: internal, excluded, foreign and malformed specifiers
EntryPool ==
    { <<Scoped(<<"react">>), Url(Scoped(<<"react">>), <<"1.0.0">>, <<"/", "foo">>)>>,
      <<Scoped(<<"deno">>), <<"..", "/", "mod.ts">>>>,
      <<Scoped(<<"deno">>) \o <<"/", "sub">>, <<"..", "/", "sub.ts">>>>,
      <<Scoped(<<"dev">>) \o <<"/", "server-build">>,
        Url(Scoped(<<"dev">>), <<"1.0.0">>, <<"/", "server-build">>)>>,
      <<Scoped(<<"serve">>) \o <<"/", "a", "/", "b">>,
        Url(Scoped(<<"serve">>), <<"1.0.0">>, <<"/", "a", "/", "b">>)>>,
      <<Scoped(<<"react">>) \o <<"/">>, Url(Scoped(<<"react">>), <<"1.0.0">>, <<>>)>>,
      <<<<"react-dom">>, Url(<<"react-dom">>, <<"18.0.0">>, <<>>)>>,
      <<Scoped(<<"unknown">>), Url(Scoped(<<"unknown">>), <<"1.0.0">>, <<>>)>>,
      <<<<"@", "remix-run">>, Url(<<"@", "remix-run">>, <<"1.0.0">>, <<>>)>>,
      <<<<"serve">>, Url(<<"serve">>, <<"1.0.0">>, <<>>)>> }

\* `imports` mappings of at most MaxEntries entries with distinct specifiers
ImportsMaps ==
    UNION { { m \in [1..n -> EntryPool] :
                  \A i, j \in 1..n : i # j => m[i][1] # m[j][1] } :
            n \in 0..MaxEntries }

\* import-map documents: `imports` alone, last, first, or between other fields
ImportMapDocs ==
    { OptionalMember(c.a, "// comment", <<"generated">>)
          \o << <<"imports", c.m>> >>
          \o OptionalMember(c.z, "scopes", <<"none">>) :
      c \in [a : BOOLEAN, m : ImportsMaps, z : BOOLEAN] }

NoImportsDoc == << <<"// comment", <<"generated">>>> >>

ImportMapFiles ==
    {JsonFile(j) : j \in ImportMapDocs \cup {NoImportsDoc}}
        \cup {MissingFile, CorruptFile, NullFile}

sampleManifest ==
    JsonFile(<< <<"version", <<"1.0.0">>>>,
                <<"dependencies", << <<InternalDep, <<"1.0.0">>>>,
                                     <<ExternalDep, <<"^", "1.0.0">>>> >> >>,
                <<"peerDependencies",
                  << <<Scoped(<<"react">>), <<"^", "1.0.0">>>> >> >> >>)

sampleImportMap ==
    JsonFile(<< <<"// comment", <<"generated">>>>,
                <<"imports",
                  << <<Scoped(<<"dev">>) \o <<"/", "server-build">>,
                       Url(Scoped(<<"dev">>), <<"1.0.0">>, <<"/", "server-build">>)>>,
                     <<<<"react-dom">>, Url(<<"react-dom">>, <<"18.0.0">>, <<>>)>> >> >> >>)

sampleDeployment ==
    JsonFile(<< <<"name", <<"deployment-test">>>>,
                <<"dependencies", << <<InternalDep, <<"1.0.0">>>> >> >> >>)

sampleFs ==
    [p \in Paths |->
        IF p \in importMapPaths THEN sampleImportMap
        ELSE IF p = deploymentPath THEN sampleDeployment
        ELSE sampleManifest]

\* the ways the file at p can be unusable
BadFiles(p) ==
    IF p \in importMapPaths
    THEN {MissingFile, CorruptFile, JsonFile(NoImportsDoc)}
    ELSE IF p = deploymentPath
    THEN {MissingFile, CorruptFile, JsonFile(<< <<"name", <<"deployment-test">>>> >>)}
    ELSE {MissingFile, CorruptFile, NullFile}

RECURSIVE PathSets(_)
\* the sets of at most k paths
PathSets(k) ==
    IF k = 0 THEN {{}}
    ELSE LET S == PathSets(k - 1)
         IN  S \cup {s \cup {p} : s \in S, p \in Paths}

\* sampleFs with at most MaxBadFiles files unusable
ReleaseFileSystems ==
    UNION { { [p \in Paths |-> IF p \in B THEN g[p] ELSE sampleFs[p]] :
                  g \in { h \in [B -> {MissingFile, CorruptFile, NullFile,
                                       JsonFile(NoImportsDoc),
                                       JsonFile(<< <<"name", <<"deployment-test">>>> >>)}] :
                              \A p \in B : h[p] \in BadFiles(p) } } :
            B \in PathSets(MaxBadFiles) }

----------------------------------------------------------------------------
(* Direct calls of the file operations *)

NoCall(target) ==
    [op |-> "none", path |-> target, before |-> MissingFile,
     raised |-> FALSE, wrote |-> FALSE, logFrom |-> 0]

idleTasks == [p \in importMapPaths |-> "idle"]
noDocs == [p \in importMapPaths |-> <<>>]

\* the manifests the direct calls are exercised on
CallPackages == { <<"remix">>, SourceName(<<"dev">>) }
CallImportMap == <<".vscode", "/", "deno_resolve_npm_imports.json">>

\* The file under test holds any input of its kind (fs holds that file alone);
\* every operation is called with the same remixVersion.
Init ==
    /\ version \in Versions
    /\ \/ \E pkg \in CallPackages, f \in ManifestFiles :
            /\ fs = [p \in {packageJson(pkg, "packages")} |-> f]
            /\ call = NoCall(packageJson(pkg, "packages"))
       \/ \E f \in ImportMapFiles :
            /\ fs = [p \in {CallImportMap} |-> f]
            /\ call = NoCall(CallImportMap)
    /\ log = <<>>
    /\ pc = "idle"
    /\ idx = 1
    /\ tasks = <<>>
    /\ taskDoc = <<>>
    /\ events = <<>>
    /\ err = "none"
    /\ runs = [p \in DOMAIN fs |-> 0]

\* await updateRemixVersion(packageName, version)
CallUpdateRemixVersion(packageName) ==
    LET path == packageJson(packageName, "packages")
        r == updateRemixVersion(fs[path], packageName, version)
    IN  /\ pc = "idle"
        /\ path = call.path
        /\ runs[path] < MaxRuns
        /\ fs' = [fs EXCEPT ![path] = r.file]
        /\ log' = log \o r.lines
        /\ call' = [op |-> "updateRemixVersion", path |-> path,
                    before |-> fs[path], raised |-> r.raised, wrote |-> r.wrote,
                    logFrom |-> Len(log)]
        /\ runs' = [runs EXCEPT ![path] = @ + 1]
        /\ UNCHANGED <<version, pc, idx, tasks, taskDoc, events, err>>

\* await updateDenoImportMap(path, version)
CallUpdateDenoImportMap(path) ==
    LET r == updateDenoImportMap(fs[path], version)
    IN  /\ pc = "idle"
        /\ path = call.path
        /\ runs[path] < MaxRuns
        /\ fs' = [fs EXCEPT ![path] = r.file]
        /\ call' = [op |-> "updateDenoImportMap", path |-> path,
                    before |-> fs[path], raised |-> r.raised, wrote |-> r.wrote,
                    logFrom |-> Len(log)]
        /\ runs' = [runs EXCEPT ![path] = @ + 1]
        /\ UNCHANGED <<version, log, pc, idx, tasks, taskDoc, events, err>>

Next ==
    \/ \E packageName \in CallPackages : CallUpdateRemixVersion(packageName)
    \/ CallUpdateDenoImportMap(CallImportMap)

Spec == Init /\ [][Next]_vars

----------------------------------------------------------------------------
(* incrementRemixVersion *)

Event(ev, path, ok) == [ev |-> ev, path |-> path, ok |-> ok]

\* a completed jsonfile.writeFile, when one ran
WriteEvents(wrote, path) ==
    IF wrote THEN <<Event("write", path, TRUE)>> ELSE <<>>

\* Promise.any in place of Promise.all: one resolved promise is enough
anyResolved(t) == \E p \in importMapPaths : t[p] = "done"

\* Promise.all settles: it resolves when every promise has resolved
allResolved(t) == \A p \in importMapPaths : t[p] = "done"

\* Promise.all settles: it rejects as soon as one promise has rejected
someRejected(t) == \E p \in importMapPaths : t[p] = "failed"

InitRelease ==
    /\ version \in Versions
    /\ fs \in ReleaseFileSystems
    /\ log = <<>>
    /\ pc = "packages"
    /\ idx = 1
    /\ tasks = idleTasks
    /\ taskDoc = noDocs
    /\ events = <<>>
    /\ err = "none"
    /\ call = NoCall(deploymentPath)
    /\ runs = [p \in Paths |-> 0]

\* one `await updateRemixVersion(...)` of the first block: "remix",
\* "create-remix", then `remix-${name}` for each name of remixPackages.all
UpdatePackage ==
    LET packageName == releasePackages[idx]
        path == packageJson(packageName, "packages")
        r == updateRemixVersion(fs[path], packageName, version)
    IN  /\ pc = "packages"
        /\ idx <= Len(releasePackages)
        /\ fs' = [fs EXCEPT ![path] = r.file]
        /\ log' = log \o r.lines
        /\ events' = events \o WriteEvents(r.wrote, path)
        /\ idx' = idx + 1
        /\ IF r.raised
           THEN pc' = "failed" /\ err' = "packages"
           ELSE UNCHANGED <<pc, err>>
        /\ UNCHANGED <<version, tasks, taskDoc, call, runs>>

\* the map over the two import-map paths: each updateDenoImportMap call runs
\* up to its `await jsonfile.readFile`, and Promise.all awaits the promises
StartImportMaps ==
    /\ pc = "packages"
    /\ idx > Len(releasePackages)
    /\ tasks' = [p \in importMapPaths |-> "read"]
    /\ pc' = "importMaps"
    /\ UNCHANGED <<version, fs, log, idx, taskDoc, events, err, call, runs>>

\* readFile of one import map settles: the promise rejects, or the new
\* document is computed and jsonfile.writeFile is issued
TaskRead(p) ==
    /\ tasks[p] = "read"
    /\ IF importMapRejects(fs[p])
       THEN /\ tasks' = [tasks EXCEPT ![p] = "failed"]
            /\ UNCHANGED taskDoc
       ELSE /\ tasks' = [tasks EXCEPT ![p] = "write"]
            /\ taskDoc' = [taskDoc EXCEPT ![p] = newDocument(fs[p].json, version)]
    /\ UNCHANGED <<version, fs, log, pc, idx, events, err, call, runs>>

\* writeFile of one import map completes
TaskWrite(p) ==
    /\ tasks[p] = "write"
    /\ fs' = [fs EXCEPT ![p] = JsonFile(taskDoc[p])]
    /\ events' = Append(events, Event("write", p, TRUE))
    /\ tasks' = [tasks EXCEPT ![p] = "done"]
    /\ UNCHANGED <<version, log, pc, idx, taskDoc, err, call, runs>>

\* `await Promise.all(...)` resumes incrementRemixVersion
Join ==
    /\ pc = "importMaps"
    /\ someRejected(tasks) \/ allResolved(tasks)
    /\ IF someRejected(tasks)
       THEN pc' = "failed" /\ err' = "importMaps"
       ELSE pc' = "deployment" /\ UNCHANGED err
    /\ UNCHANGED <<version, fs, log, idx, tasks, taskDoc, events, call, runs>>

\* await updateDeploymentScriptVersion(remixVersion)
UpdateDeployment ==
    LET r == updateDeploymentScriptVersion(fs[deploymentPath], version)
    IN  /\ pc = "deployment"
        /\ fs' = [fs EXCEPT ![deploymentPath] = r.file]
        /\ log' = log \o r.lines
        /\ events' = events \o WriteEvents(r.wrote, deploymentPath)
        /\ IF r.raised
           THEN pc' = "failed" /\ err' = "deployment"
           ELSE pc' = "commit" /\ UNCHANGED err
        /\ UNCHANGED <<version, idx, tasks, taskDoc, call, runs>>

\* execSync(`git commit --all ...`): throws when git exits non-zero
Commit ==
    /\ pc = "commit"
    /\ \E ok \in BOOLEAN :
        /\ events' = Append(events, Event("commit", <<>>, ok))
        /\ IF ok
           THEN pc' = "tag" /\ UNCHANGED err
           ELSE pc' = "failed" /\ err' = "commit"
    /\ UNCHANGED <<version, fs, log, idx, tasks, taskDoc, call, runs>>

\* execSync(`git tag -a ... v${remixVersion}`), then the final log line
Tag ==
    /\ pc = "tag"
    /\ \E ok \in BOOLEAN :
        /\ events' = Append(events, Event("tag", <<"v">> \o version, ok))
        /\ IF ok
           THEN /\ pc' = "done"
                /\ log' = Append(log, LogLine("Committed", EmptyStr, version))
                /\ UNCHANGED err
           ELSE /\ pc' = "failed"
                /\ err' = "tag"
                /\ UNCHANGED log
    /\ UNCHANGED <<version, fs, idx, tasks, taskDoc, call, runs>>

NextRelease ==
    \/ UpdatePackage
    \/ StartImportMaps
    \/ \E p \in importMapPaths : TaskRead(p)
    \/ \E p \in importMapPaths : TaskWrite(p)
    \/ Join
    \/ UpdateDeployment
    \/ Commit
    \/ Tag

SpecRelease == InitRelease /\ [][NextRelease]_vars

----------------------------------------------------------------------------
(* Properties of updateRemixVersion, checked under Spec *)

\* the last direct call was updateRemixVersion on a manifest that parsed to
\* an object
ManifestRewritten ==
    call.op = "updateRemixVersion" /\ call.before.kind = "json"

\* the member of a dependency field before and after the last call
OldDep(field, key) == Get(Get(call.before.json, field), key)
NewDep(field, key) == Get(Get(fs[call.path].json, field), key)
HadDep(field, key) ==
    Has(call.before.json, field) /\ Has(Get(call.before.json, field), key)

\* the lines the last call logged
CallLines == SubSeq(log, call.logFrom + 1, Len(log))

\* C1: after updateRemixVersion on a parseable manifest, every key
\* @remix-run/<p> (p in remixPackages.all) present in `dependencies` or
\* `devDependencies` maps to the target version exactly, whatever its previous
\* value was.
C1_ExactPinned ==
    ManifestRewritten =>
        \A field \in {"dependencies", "devDependencies"} :
            \A i \in 1..Len(all) :
                HadDep(field, Scoped(all[i])) =>
                    NewDep(field, Scoped(all[i])) = version

\* The same for the keys whose previous value was not the empty string; this
\* is what the truthiness test of the loop body gives.
C1_ExactPinnedWhenNonEmpty ==
    ManifestRewritten =>
        \A field \in {"dependencies", "devDependencies"} :
            \A i \in 1..Len(all) :
                HadDep(field, Scoped(all[i])) =>
                    NewDep(field, Scoped(all[i])) =
                        IF OldDep(field, Scoped(all[i])) = <<>> THEN <<>>
                        ELSE version

\* C2: after updateRemixVersion, every key @remix-run/<p> present in
\* `peerDependencies` maps to "^" followed by the target version when its
\* previous value began with "^", and to the target version exactly otherwise.
C2_PeerCaretPreserved ==
    ManifestRewritten =>
        \A i \in 1..Len(all) :
            HadDep("peerDependencies", Scoped(all[i])) =>
                NewDep("peerDependencies", Scoped(all[i])) =
                    IF startsWith(OldDep("peerDependencies", Scoped(all[i])), "^")
                    THEN <<"^">> \o version
                    ELSE version

\* The same for the keys whose previous value was not the empty string.
C2_PeerCaretPreservedWhenNonEmpty ==
    ManifestRewritten =>
        \A i \in 1..Len(all) :
            HadDep("peerDependencies", Scoped(all[i])) =>
                NewDep("peerDependencies", Scoped(all[i])) =
                    IF OldDep("peerDependencies", Scoped(all[i])) = <<>> THEN <<>>
                    ELSE IF startsWith(OldDep("peerDependencies", Scoped(all[i])), "^")
                    THEN <<"^">> \o version
                    ELSE version

\* C6: when the manifest is missing or unparseable, updateRemixVersion
\* completes without raising and performs no write: no file is created and
\* the file is as it was.
C6_MissingManifestNoWrite ==
    (call.op = "updateRemixVersion" /\ call.before.kind \in {"missing", "corrupt"})
        => /\ ~call.raised
           /\ ~call.wrote
           /\ fs[call.path] = call.before

C6_Witness ==
    /\ call.op = "updateRemixVersion"
    /\ call.before.kind = "missing"
    /\ fs[call.path].kind = "missing"

\* C7: updateRemixVersion logs the success line only when the manifest was
\* loaded, rewritten and written back; when it wrote nothing it logs a skip
\* notice and no success line.
C7_SuccessLineOnlyOnWrite ==
    call.op = "updateRemixVersion" =>
        /\ (\E i \in 1..Len(CallLines) : CallLines[i].msg = "Updated")
               => call.wrote
        /\ ~call.wrote =>
               /\ \E i \in 1..Len(CallLines) : CallLines[i].msg = "NoPackageJson"
               /\ \A i \in 1..Len(CallLines) : CallLines[i].msg # "Updated"

----------------------------------------------------------------------------
(* Properties of updateDenoImportMap, checked under Spec *)

\* the last direct call was updateDenoImportMap and it wrote the document
ImportMapRewritten ==
    call.op = "updateDenoImportMap" /\ ~call.raised

OldImports == Get(call.before.json, "imports")
NewImports == Get(fs[call.path].json, "imports")

\* the position of the n-th "/" of s, or Len(s) + 1 when there is none
SlashAt(s, n) ==
    IF Cardinality({i \in 1..Len(s) : s[i] = "/"}) < n
    THEN Len(s) + 1
    ELSE CHOOSE i \in 1..Len(s) :
             s[i] = "/" /\ Cardinality({j \in 1..(i - 1) : s[j] = "/"}) = n - 1

\* where the package name of a specifier ends: before the second "/" of a
\* scoped specifier, before the first "/" of any other
NameEnd(specifier) ==
    SlashAt(specifier, IF startsWith(specifier, "@") THEN 2 ELSE 1)

NameOf(specifier) == SubSeq(specifier, 1, NameEnd(specifier) - 1)
SubpathOf(specifier) == SubSeq(specifier, NameEnd(specifier) + 1, Len(specifier))

\* the specifier names an internal package and is not the self-reference
Rewritable(specifier) ==
    /\ \E i \in 1..Len(all) : NameOf(specifier) = <<"@", "remix-run", "/">> \o all[i]
    /\ specifier # <<"@", "remix-run", "/", "deno">>

\* the URL the rewrite rule gives a rewritable specifier
ExpectedUrl(specifier) ==
    <<"https:", "/", "/", "esm.sh", "/">> \o NameOf(specifier) \o <<"@">> \o version
        \o (IF SubpathOf(specifier) = <<>> THEN <<>>
            ELSE <<"/">> \o SubpathOf(specifier))

\* C3: updateDenoImportMap keeps the specifiers of `imports` (none added, none
\* deleted); an entry whose package name is @remix-run/<p> and whose specifier
\* is not @remix-run/deno gets the URL <CDN>/<packageName>@<version>, with
\* /<subpath> only for a non-empty subpath; every other entry keeps its URL.
C3_ImportsRewritten ==
    ImportMapRewritten =>
        /\ Len(NewImports) = Len(OldImports)
        /\ \A i \in 1..Len(OldImports) :
            /\ NewImports[i][1] = OldImports[i][1]
            /\ NewImports[i][2] =
                   IF Rewritable(OldImports[i][1])
                   THEN ExpectedUrl(OldImports[i][1])
                   ELSE OldImports[i][2]

C3_Witness ==
    /\ ImportMapRewritten
    /\ \E i \in 1..Len(OldImports) :
        /\ Rewritable(OldImports[i][1])
        /\ SubpathOf(OldImports[i][1]) # <<>>
        /\ NewImports[i][2] # OldImports[i][2]
    /\ \E i \in 1..Len(OldImports) :
        /\ OldImports[i][1] = <<"@", "remix-run", "/", "deno">>
        /\ NewImports[i][2] = OldImports[i][2]

\* the position of key k among the members of obj
KeyIndex(obj, k) == CHOOSE i \in 1..Len(obj) : obj[i][1] = k

\* C8 as stated: `imports` is written at the position it had in the input, and
\* the other top-level fields are unchanged in value and order.
C8_ImportsPositionKept ==
    ImportMapRewritten =>
        /\ KeyIndex(fs[call.path].json, "imports")
               = KeyIndex(call.before.json, "imports")
        /\ Rest(fs[call.path].json, "imports") = Rest(call.before.json, "imports")

\* C8 amended: `imports` is written as the last top-level key, and the other
\* top-level fields are unchanged in value and in their relative order.
C8_ImportsMovedLast ==
    ImportMapRewritten =>
        /\ KeyIndex(fs[call.path].json, "imports") = Len(fs[call.path].json)
        /\ Len(fs[call.path].json) = Len(call.before.json)
        /\ Rest(fs[call.path].json, "imports") = Rest(call.before.json, "imports")

C8_Witness ==
    /\ ImportMapRewritten
    /\ runs[call.path] = 1
    /\ KeyIndex(call.before.json, "imports") = 1
    /\ Len(call.before.json) = 2
    /\ KeyIndex(fs[call.path].json, "imports") = 2

\* the entry `@remix-run/react` whose URL carries the subpath /foo
ReactSpecifier == <<"@", "remix-run", "/", "react">>
ReactUrl(ver, subpath) ==
    <<"https:", "/", "/", "esm.sh", "/">> \o ReactSpecifier \o <<"@">> \o ver \o subpath

\* C9 as stated: the entry @remix-run/react with URL <base>/@remix-run/react@1.0.0/foo
\* becomes <base>/@remix-run/react@<version>/foo.
C9_UrlSubpathPreserved ==
    ImportMapRewritten =>
        \A i \in 1..Len(OldImports) :
            OldImports[i] = <<ReactSpecifier, ReactUrl(<<"1.0.0">>, <<"/", "foo">>)>>
                => NewImports[i][2] = ReactUrl(version, <<"/", "foo">>)

\* C9 amended: that entry becomes <base>/@remix-run/react@<version>, without
\* the subpath of the previous URL.
C9_UrlSubpathFromSpecifier ==
    ImportMapRewritten =>
        \A i \in 1..Len(OldImports) :
            OldImports[i] = <<ReactSpecifier, ReactUrl(<<"1.0.0">>, <<"/", "foo">>)>>
                => NewImports[i][2] = ReactUrl(version, <<>>)

C9_Witness ==
    /\ ImportMapRewritten
    /\ runs[call.path] = 1
    /\ \E i \in 1..Len(OldImports) :
        /\ OldImports[i] = <<ReactSpecifier, ReactUrl(<<"1.0.0">>, <<"/", "foo">>)>>
        /\ NewImports[i][2] # OldImports[i][2]

----------------------------------------------------------------------------
(* Idempotence, checked under Spec *)

\* the last direct call was at least the second one on its file
SecondRun == call.op # "none" /\ runs[call.path] >= 2

\* C10 as stated: a second run with the same version leaves the file (values
\* and key order) as the first run left it, for every target version.
C10_Idempotent ==
    SecondRun => fs[call.path] = call.before

\* C10 amended: the same, for every target version that does not begin
\* with "^" (and for every target version in the case of updateDenoImportMap).
C10_IdempotentNoCaretVersion ==
    (SecondRun /\ (~startsWith(version, "^") \/ call.op = "updateDenoImportMap"))
        => fs[call.path] = call.before

C10_Witness ==
    /\ SecondRun
    /\ ManifestRewritten
    /\ ~startsWith(version, "^")
    /\ HadDep("peerDependencies", InternalDep)
    /\ HadDep("dependencies", InternalDep)
    /\ NewDep("peerDependencies", InternalDep) = version
    /\ NewDep("dependencies", InternalDep) = version

----------------------------------------------------------------------------
(* Properties of incrementRemixVersion, checked under SpecRelease *)

EventIndexes(ev) == {i \in 1..Len(events) : events[i].ev = ev}
CommitStarted == EventIndexes("commit") # {}

\* the files an update of the release rewrites: those that parse to a usable
\* document (an unusable file stays unusable, no update writes it)
Writable(p) ==
    IF p \in importMapPaths THEN ~importMapRejects(fs[p])
    ELSE IF p = deploymentPath
    THEN fs[p].kind = "json" /\ Has(fs[p].json, "dependencies")
    ELSE fs[p].kind = "json"

\* C4: the commit starts only after every manifest write, every import-map
\* write and the deployment-manifest write has completed, for every
\* interleaving of the import-map updates; commit and tag are each invoked at
\* most once, the tag only after a successful commit, and a successful release
\* is exactly one commit followed by exactly one tag v<version>.
C4_CommitAfterAllWrites ==
    /\ CommitStarted =>
        /\ \A p \in importMapPaths : tasks[p] = "done"
        /\ \A p \in Paths : Writable(p) =>
               \E i \in EventIndexes("write") : events[i].path = p
        /\ \A i \in EventIndexes("write"), j \in EventIndexes("commit") : i < j
    /\ Cardinality(EventIndexes("commit")) <= 1
    /\ Cardinality(EventIndexes("tag")) <= 1
    /\ \A j \in EventIndexes("tag") :
           \E i \in EventIndexes("commit") : i < j /\ events[i].ok
    /\ pc = "done" =>
           /\ Len(events) >= 2
           /\ events[Len(events) - 1] = Event("commit", <<>>, TRUE)
           /\ events[Len(events)] = Event("tag", <<"v">> \o version, TRUE)

C4_Witness ==
    /\ pc = "done"
    /\ Cardinality(EventIndexes("write")) = Cardinality(Paths)
    /\ events[Cardinality(Paths) - 1].path \in importMapPaths

FailedGitCommand == \E i \in 1..Len(events) : events[i].ev # "write" /\ ~events[i].ok
Surfaced == pc = "failed"

\* C5 as stated: the release surfaces an error if and only if the commit or
\* the tag command fails; an unusable file in steps 1-4 is skipped and the
\* release still reaches the commit.
C5_OnlyGitFailuresSurface ==
    /\ Surfaced <=> FailedGitCommand
    /\ pc \in {"done", "failed"} => CommitStarted

\* C5 amended: the release surfaces an error if and only if an import-map
\* update rejects, the deployment-test manifest update rejects, or the commit
\* or tag command fails; a missing or unparseable package manifest of steps
\* 1-2 is skipped without aborting.
C5_SurfacedErrors ==
    /\ Surfaced <=> err # "none"
    /\ err \in {"none", "importMaps", "deployment", "commit", "tag"}
    /\ err = "importMaps" =>
           \E p \in importMapPaths : tasks[p] = "failed" /\ ~Writable(p)
    /\ err = "deployment" => ~Writable(deploymentPath)
    /\ err \in {"commit", "tag"} =>
           /\ events[Len(events)].ev = err
           /\ ~events[Len(events)].ok
    /\ (\E p \in importMapPaths : ~Writable(p)) =>
           pc \notin {"deployment", "commit", "tag", "done"}
    /\ ~Writable(deploymentPath) => pc \notin {"commit", "tag", "done"}
    /\ pc = "done" => ~FailedGitCommand

C5_Witness ==
    /\ pc = "done"
    /\ \E p \in manifestPaths : fs[p].kind = "missing"

====
